---------------------------- MODULE Spec2Model ----------------------------
(***************************************************************************)
(* Model of src/common.rs of WebApps: the browser probe, the launcher      *)
(* record, the desktop-entry writer and reader, the per-family command     *)
(* synthesis with its Firefox profile bootstrap, and the launcher store    *)
(* (create / delete / get_webapps) acting on a file system.                *)
(*                                                                         *)
(* A Rust String is a sequence of tokens.  A token is a piece of text that *)
(* the code treats as a unit: a key of the entry format ("Name=",          *)
(* "X-WebApp-URL="), a flag ("--incognito"), a separator (" ", "\n") or a  *)
(* run of ordinary characters ("a").  contains / replace / starts_with /   *)
(* split are the subsequence operations of the standard library.           *)
(*                                                                         *)
(* A path is a sequence of components, each component a String.            *)
(***************************************************************************)
EXTENDS Integers, Sequences, FiniteSets, TLC

VARIABLES
    fs,         \* the file system: path -> node, a directory or a file with its text
    probe,      \* catalog index -> outcome of try_exists() on the browser's test path
    launcher,   \* the WebAppLauncher value the caller holds, or NoLauncher
    res         \* outcome of the last operation called

vars == <<fs, probe, launcher, res>>

-----------------------------------------------------------------------------
(* Bounds of the model *)

\* longest tail of tokens appended to a base url / longest custom_parameters
MaxLen == 1

-----------------------------------------------------------------------------
(* String operations of the Rust standard library, on token sequences *)

\* str::starts_with
StartsWith(s, k) ==
    /\ Len(k) <= Len(s)
    /\ SubSeq(s, 1, Len(k)) = k

\* str::ends_with
EndsWith(s, k) ==
    /\ Len(k) <= Len(s)
    /\ SubSeq(s, Len(s) - Len(k) + 1, Len(s)) = k

\* str::contains
Contains(s, k) ==
    \E i \in 1..(Len(s) - Len(k) + 1) : SubSeq(s, i, i + Len(k) - 1) = k

\* str::replace: every non-overlapping match, leftmost first
RECURSIVE Replace(_, _, _)
Replace(s, k, r) ==
    IF Len(s) = 0 THEN <<>>
    ELSE IF StartsWith(s, k)
         THEN r \o Replace(SubSeq(s, Len(k) + 1, Len(s)), k, r)
         ELSE <<Head(s)>> \o Replace(Tail(s), k, r)

\* str::split on a one-token separator: the pieces, empty ones included
RECURSIVE Split(_, _)
Split(s, sep) ==
    LET at == {i \in 1..Len(s) : s[i] = sep}
    IN  IF at = {} THEN <<s>>
        ELSE LET i == CHOOSE x \in at : \A y \in at : x <= y
             IN  <<SubSeq(s, 1, i - 1)>> \o Split(SubSeq(s, i + 1, Len(s)), sep)

\* BufRead::lines: pieces between "\n", a trailing "\r" of a piece dropped,
\* no last empty piece after the final "\n"
Lines(text) ==
    LET raw  == Split(text, "\n")
        keep == IF raw[Len(raw)] = <<>> THEN SubSeq(raw, 1, Len(raw) - 1) ELSE raw
        chop(l) == IF Len(l) > 0 /\ l[Len(l)] = "\r" THEN SubSeq(l, 1, Len(l) - 1) ELSE l
    IN  [i \in 1..Len(keep) |-> chop(keep[i])]

\* all strings over an alphabet, of length at most n
RECURSIVE StrUpTo(_, _)
StrUpTo(A, n) ==
    IF n = 0 THEN {<<>>}
    ELSE LET S == StrUpTo(A, n - 1)
         IN  S \cup {Append(s, a) : s \in S, a \in A}

-----------------------------------------------------------------------------
(* Paths *)

\* PathBuf::join / push of a relative string: one more component (an empty
\* string leaves a trailing separator, which names the same directory)
Join(p, s) == Append(p, s)

\* the path as the file system resolves it: empty components dropped
Norm(p) == SelectSeq(p, LAMBDA c : c # <<>>)

\* Path::to_str: the components separated by "/"
RECURSIVE PathStr(_)
PathStr(p) ==
    IF Len(p) = 0 THEN <<>>
    ELSE IF Len(p) = 1 THEN p[1]
    ELSE p[1] \o <<"/">> \o PathStr(Tail(p))

\* p is q or lies below q
Under(p, q) == Len(q) <= Len(p) /\ SubSeq(p, 1, Len(q)) = q

home_dir == << <<"~">> >>

desktop_filepath(filename) ==
    Join(Join(home_dir, <<".local/share/applications">>), filename)

AppsDir == Norm(desktop_filepath(<<>>))

-----------------------------------------------------------------------------
(* Browsers *)

FirefoxFamily == {"Firefox", "FirefoxFlatpak", "Librewolf", "WaterfoxFlatpak"}

\* Browser::new: exec and test given relative to the data home are resolved under it
Browser_new(type, name, exec, test_path) ==
    LET data_home == Join(home_dir, <<".local/share">>)
        resolve(s) == IF StartsWith(s, <<".local/share/">>)
                      THEN PathStr(Join(data_home, Split(s, ".local/share/")[2]))
                      ELSE s
    IN  [_type |-> type, name |-> name, exec |-> resolve(exec), test |-> resolve(test_path)]

is_installed(b) == b._type # "NoBrowser"

NoBrowser == Browser_new("NoBrowser", <<"Select browser">>, <<>>, <<>>)

\* supported_browsers::native_browsers()
native_browsers ==
    << Browser_new("Firefox", <<"Firefox">>, <<"/usr/bin/firefox">>, <<"/usr/bin/firefox">>),
       Browser_new("Chromium", <<"Chromium">>, <<"/usr/bin/chromium">>, <<"/usr/bin/chromium">>),
       Browser_new("Chromium", <<"Microsoft Edge", " (stable)">>,
                   <<"/usr/bin/microsoft-edge-stable">>, <<"/usr/bin/microsoft-edge-stable">>),
       Browser_new("Falkon", <<"Falkon">>, <<"/usr/bin/falkon">>, <<"/usr/bin/falkon">>) >>

\* supported_browsers::flatpak_browsers()
flatpak_browsers ==
    << Browser_new("FirefoxFlatpak", <<"Firefox", " (flatpak)">>,
                   <<".local/share/", "flatpak/exports/bin/org.mozilla.firefox">>,
                   <<".local/share/", "flatpak/exports/bin/org.mozilla.firefox">>),
       Browser_new("Librewolf", <<"LibreWolf", " (flatpak)">>,
                   <<".local/share/", "flatpak/exports/bin/io.gitlab.librewolf-community">>,
                   <<".local/share/", "flatpak/exports/bin/io.gitlab.librewolf-community">>),
       Browser_new("WaterfoxFlatpak", <<"Waterfox", " (flatpak)">>,
                   <<".local/share/", "flatpak/exports/bin/net.waterfox.waterfox">>,
                   <<".local/share/", "flatpak/exports/bin/net.waterfox.waterfox">>) >>

\* test_browsers of get_supported_browsers: native, then flatpak
Catalog == native_browsers \o flatpak_browsers

ProbeOutcomes == {"found", "missing", "error"}

\* get_supported_browsers: the candidates whose test path try_exists() finds, in
\* catalog order, behind the NoBrowser entry inserted at index 0.  pr is the
\* outcome of try_exists() per candidate.
RECURSIVE probe_filter(_, _)
probe_filter(pr, i) ==
    IF i > Len(Catalog) THEN <<>>
    ELSE IF pr[i] = "found"
         THEN <<Catalog[i]>> \o probe_filter(pr, i + 1)
         ELSE probe_filter(pr, i + 1)

\* the NoBrowser entry pushed behind the found browsers
get_supported_browsers_pushed(pr) == probe_filter(pr, 1) \o <<NoBrowser>>

get_supported_browsers(pr) == <<NoBrowser>> \o probe_filter(pr, 1)

\* Option<Browser>
None == [some |-> FALSE]
Some(v) == [some |-> TRUE, v |-> v]

\* Browser::web_browser: the first supported browser of that name
web_browser(pr, name) ==
    LET supported == get_supported_browsers(pr)
        hits == {i \in 1..Len(supported) : supported[i].name = name}
    IN  IF hits = {} THEN None
        ELSE Some(supported[CHOOSE i \in hits : \A j \in hits : i <= j])

-----------------------------------------------------------------------------
(* The launcher *)

\* Url::parse(url).is_ok(): a scheme followed by a host
url_valid(url) == Len(url) >= 2 /\ url[1] = "https://"

\* WebAppLauncher::new.  codename is an Option; random_code the number drawn
\* by gen_range when it is None.
new(name, codename, url, icon, category, browser, custom_parameters, isolated, navbar, privatewindow, random_code) ==
    LET cn == IF codename.some THEN codename.v
              ELSE Replace(name, <<" ">>, <<>>) \o <<ToString(random_code)>>
        filename == <<"webapp-">> \o cn \o <<".desktop">>
    IN  [ path              |-> desktop_filepath(filename),
          codename          |-> cn,
          web_browser       |-> browser,
          name              |-> name,
          icon              |-> icon,
          is_valid          |-> /\ name # <<>>
                                /\ icon # <<>>
                                /\ url_valid(url)
                                /\ is_installed(browser),
          exec              |-> browser.exec,
          args              |-> <<>>,
          category          |-> category,
          url               |-> url,
          custom_parameters |-> custom_parameters,
          isolate_profile   |-> isolated,
          navbar            |-> navbar,
          is_incognito      |-> privatewindow ]


-----------------------------------------------------------------------------
(* Command synthesis *)

\* profile_dir of exec_firefox, by fork
firefox_profile_root(fork) ==
    IF fork = "firefox"
    THEN Join(home_dir, <<".var/app/org.mozilla.firefox/data/ice/firefox">>)
    ELSE IF fork = "librewolf"
    THEN Join(home_dir, <<".var/app/io.gitlab.librewolf-community/data/ice/librewolf">>)
    ELSE IF fork = "waterfox"
    THEN Join(home_dir, <<".var/app/net.waterfox.waterfox/data/ice/waterfox">>)
    ELSE home_dir

\* the fork exec_string passes to exec_firefox for each Firefox-family type
firefox_fork(type) ==
    CASE type = "Firefox"         -> "firefox"
      [] type = "FirefoxFlatpak"  -> "firefox"
      [] type = "Librewolf"       -> "librewolf"
      [] type = "WaterfoxFlatpak" -> "waterfox"

\* profile_path of exec_firefox
firefox_profile_path(l, fork) == Join(firefox_profile_root(fork), l.codename)

\* ~/.local/share/ice/profiles/<codename> of exec_chromium and exec_falkon
ice_profile_path(l) ==
    Join(Join(Join(Join(home_dir, <<".local/share">>), <<"ice">>), <<"profiles">>), l.codename)

\* the string exec_firefox returns (its file system effects are in create)
exec_firefox(l, fork) ==
    l.exec \o <<" ", "--class", " ", "WebApp-">> \o l.codename
           \o <<" ", "--name", " ", "WebApp-">> \o l.codename
           \o <<" ", "--profile", " ">> \o PathStr(firefox_profile_path(l, fork))
           \o <<" ", "--no-remote", " ">>
           \o (IF l.is_incognito THEN <<"--private-window", " ">> ELSE <<>>)
           \o (IF l.custom_parameters # <<>> THEN l.custom_parameters \o <<" ">> ELSE <<>>)
           \o l.url

\* the profile directory passed whether or not isolate_profile is set
exec_chromium_always_isolated(l) ==
    l.exec \o <<" ", "--app=">> \o l.url
           \o <<" ", "--class=", "WebApp-">> \o l.codename
           \o <<" ", "--name=", "WebApp-">> \o l.codename \o <<" ">>
           \o <<"--user-data-dir", "=">> \o PathStr(ice_profile_path(l)) \o <<" ">>
           \o (IF l.is_incognito
               THEN IF StartsWith(l.web_browser.name, <<"Microsoft Edge">>)
                    THEN <<"--inprivate", " ">>
                    ELSE <<"--incognito", " ">>
               ELSE <<>>)
           \o (IF l.custom_parameters # <<>> THEN l.custom_parameters \o <<" ">> ELSE <<>>)

exec_chromium(l) ==
    l.exec \o <<" ", "--app=">> \o l.url
           \o <<" ", "--class=", "WebApp-">> \o l.codename
           \o <<" ", "--name=", "WebApp-">> \o l.codename \o <<" ">>
           \o (IF l.isolate_profile
               THEN <<"--user-data-dir", "=">> \o PathStr(ice_profile_path(l)) \o <<" ">>
               ELSE <<>>)
           \o (IF l.is_incognito
               THEN IF StartsWith(l.web_browser.name, <<"Microsoft Edge">>)
                    THEN <<"--inprivate", " ">>
                    ELSE <<"--incognito", " ">>
               ELSE <<>>)
           \o (IF l.custom_parameters # <<>> THEN l.custom_parameters \o <<" ">> ELSE <<>>)

exec_falkon(l) ==
    (IF l.isolate_profile
     THEN l.exec \o <<" ", "--portable", " ", "--wmclass", " ", "WebApp-">> \o l.codename
                 \o <<" ", "--profile", " ">> \o PathStr(ice_profile_path(l)) \o <<" ">>
     ELSE <<>>)
    \o (IF l.is_incognito THEN <<"--private-browsing", " ">> ELSE <<>>)
    \o (IF l.custom_parameters # <<>> THEN l.custom_parameters \o <<" ">> ELSE <<>>)
    \o <<"--no-remote", " ", "--current-tab", " ">> \o l.url

exec_string(l) ==
    LET t == l.web_browser._type
    IN  IF t \in FirefoxFamily THEN exec_firefox(l, firefox_fork(t))
        ELSE IF t = "Chromium" THEN exec_chromium(l)
        ELSE IF t = "Falkon" THEN exec_falkon(l)
        ELSE <<>>

-----------------------------------------------------------------------------
(* The desktop-entry writer and reader *)

\* booleans written capitalised
BoolStr_capitalised(b) == IF b THEN <<"True">> ELSE <<"False">>

\* format!("{}", bool)
BoolStr(b) == IF b THEN <<"true">> ELSE <<"false">>

\* the lines create writes, in order; exec is the value of exec_string()
entry_lines(l, exec) ==
    << <<"[Desktop Entry]">>,
       <<"Version=", "1.0">>,
       <<"Name=">> \o l.name,
       <<"Comment=", "Web App">>,
       <<"Exec=">> \o exec,
       <<"Terminal=", "false">>,
       <<"Type=", "Application">>,
       <<"Icon=">> \o l.icon,
       <<"Categories=", "GTK;">> \o l.category \o <<";">>,
       <<"MimeType=", "text/html;text/xml;application/xhtml_xml;">>,
       <<"StartupWMClass=", "WebApp", "-">> \o l.codename,
       <<"StartupNotify=", "true">>,
       <<"X-MultipleArgs=", "false">>,
       <<"X-WebApp-Browser=">> \o l.web_browser.name,
       <<"X-WebApp-URL=">> \o l.url,
       <<"X-WebApp-Navbar=">> \o BoolStr(l.navbar),
       <<"X-WebApp-PrivateWindow=">> \o BoolStr(l.is_incognito),
       <<"X-WebApp-Isolated=">> \o BoolStr(l.isolate_profile),
       <<"X-WebApp-CustomParameters=">> \o l.custom_parameters >>

\* writeln! of the first n lines: each line followed by "\n"
RECURSIVE written(_, _)
written(ls, n) ==
    IF n = 0 THEN <<>> ELSE written(ls, n - 1) \o ls[n] \o <<"\n">>

\* the locals of read before the first line
read_init ==
    [ browser_name |-> <<>>, name |-> <<>>, icon |-> <<>>, exec |-> <<>>,
      category |-> <<>>, url |-> <<>>, custom_parameters |-> <<>>,
      isolate_profile |-> FALSE, navbar |-> FALSE, is_incognito |-> FALSE,
      is_webapp |-> FALSE ]

\* the body of read's loop for one line
scan_line(a, line) ==
    LET has(k) == Contains(line, k)
        cut(k) == Replace(line, k, <<>>)
    IN  [ is_webapp |->
              IF \/ has(<<"StartupWMClass=", "WebApp">>)
                 \/ has(<<"StartupWMClass=", "Chromium">>)
                 \/ has(<<"StartupWMClass=", "ICE-SSB">>)
              THEN TRUE ELSE a.is_webapp,
          name |-> IF has(<<"Name=">>) THEN cut(<<"Name=">>) ELSE a.name,
          icon |-> IF has(<<"Icon=">>) THEN cut(<<"Icon=">>) ELSE a.icon,
          exec |-> IF has(<<"Exec=">>) THEN cut(<<"Exec=">>) ELSE a.exec,
          category |->
              IF has(<<"Categories=">>)
              THEN Replace(Replace(cut(<<"Categories=">>), <<"GTK;">>, <<>>), <<";">>, <<>>)
              ELSE a.category,
          browser_name |->
              IF has(<<"X-WebApp-Browser=">>) THEN cut(<<"X-WebApp-Browser=">>)
              ELSE a.browser_name,
          url |-> IF has(<<"X-WebApp-URL=">>) THEN cut(<<"X-WebApp-URL=">>) ELSE a.url,
          custom_parameters |->
              IF has(<<"X-WebApp-CustomParameters=">>)
              THEN cut(<<"X-WebApp-CustomParameters=">>)
              ELSE a.custom_parameters,
          isolate_profile |->
              IF has(<<"X-WebApp-Isolated=">>)
              THEN cut(<<"X-WebApp-Isolated=">>) = <<"true">>
              ELSE a.isolate_profile,
          navbar |->
              IF has(<<"X-WebApp-Navbar=">>)
              THEN cut(<<"X-WebApp-Navbar=">>) = <<"true">>
              ELSE a.navbar,
          is_incognito |->
              IF has(<<"X-WebApp-PrivateWindow=">>)
              THEN cut(<<"X-WebApp-PrivateWindow=">>) = <<"true">>
              ELSE a.is_incognito ]

RECURSIVE scan_lines(_, _, _)
scan_lines(a, ls, i) ==
    IF i > Len(ls) THEN a ELSE scan_lines(scan_line(a, ls[i]), ls, i + 1)

\* the arguments of an Exec value: its pieces between spaces after the
\* first, empty pieces dropped
exec_args(exec) ==
    LET pieces == Split(exec, " ")
    IN  SelectSeq(Tail(pieces), LAMBDA arg : arg # <<>>)

\* Result<T>
Ok(v) == [ok |-> TRUE, v |-> v]
Err(e) == [ok |-> FALSE, e |-> e]

\* WebAppLauncher::read once File::open has succeeded: text is the file's
\* content, pr the outcome of try_exists() per catalog candidate
read_text(text, path, codename, pr) ==
    LET a  == scan_lines(read_init, Lines(text), 1)
        wb == web_browser(pr, a.browser_name)
    IN  IF wb.some
        THEN Ok([ path              |-> path,
                  codename          |-> codename,
                  web_browser       |-> wb.v,
                  name              |-> a.name,
                  icon              |-> a.icon,
                  is_valid          |-> a.is_webapp /\ a.name # <<>> /\ a.icon # <<>>,
                  exec              |-> a.exec,
                  args              |-> exec_args(a.exec),
                  category          |-> a.category,
                  url               |-> a.url,
                  custom_parameters |-> a.custom_parameters,
                  isolate_profile   |-> a.isolate_profile,
                  navbar            |-> a.navbar,
                  is_incognito      |-> a.is_incognito ])
        ELSE Err("Cannot read web app launcher.")


-----------------------------------------------------------------------------
(* The file system *)

Dir == [kind |-> "dir"]
File(text) == [kind |-> "file", text |-> text]

Exists(f, p) == p \in DOMAIN f
IsDir(f, p)  == p \in DOMAIN f /\ f[p].kind = "dir"
IsFile(f, p) == p \in DOMAIN f /\ f[p].kind = "file"

Parent(p) == SubSeq(p, 1, Len(p) - 1)

\* File::create + write_all: the file at p holds text
put_file(f, p, text) ==
    [q \in DOMAIN f \cup {p} |-> IF q = p THEN File(text) ELSE f[q]]

\* File::create succeeds when p's directory exists and p is no directory
can_create_file(f, p) == Len(p) > 1 /\ IsDir(f, Parent(p)) /\ ~IsDir(f, p)

\* fs::create_dir_all: p and every directory above it
create_dir_all(f, p) ==
    LET up == {SubSeq(p, 1, n) : n \in 1..Len(p)}
    IN  [q \in DOMAIN f \cup up |-> IF q \in DOMAIN f THEN f[q] ELSE Dir]

\* fs::remove_file
remove_file(f, p) == [q \in DOMAIN f \ {p} |-> f[q]]

\* fs::remove_dir_all: p and everything below it
remove_dir_all(f, p) == [q \in {x \in DOMAIN f : ~Under(x, p)} |-> f[q]]

\* the bundled payloads (include_bytes!)
UserJsBytes == <<"user.js bytes">>
UserChromeCssBytes == <<"userChrome.css bytes">>

-----------------------------------------------------------------------------
(* Operations *)

NoLauncher == [none |-> TRUE]

Result(op, status, fault, l, value) ==
    [op |-> op, status |-> status, fault |-> fault, l |-> l, value |-> value]

\* failures the file system can answer create() with, by the call that fails
EntryFaults == {"create_entry", "write_head", "write_tail"}
ProfileFaults == {"mkdir_profile", "mkdir_chrome", "create_userjs", "write_userjs",
                  "create_css", "write_css"}

create_faults(l) ==
    {"none"} \cup EntryFaults
             \cup (IF l.web_browser._type \in FirefoxFamily THEN ProfileFaults ELSE {})

\* the file system after exec_firefox's bootstrap of the profile, when it
\* ran to the end; a failed write_all leaves the created file empty
firefox_bootstrap(f, l, fork, fault) ==
    LET profile_path == Norm(firefox_profile_path(l, fork))
        chrome  == Append(profile_path, <<"chrome">>)
        user_js == Append(profile_path, <<"user.js">>)
        css     == Append(chrome, <<"userChrome.css">>)
        f1 == create_dir_all(create_dir_all(f, profile_path), chrome)
        f2 == put_file(f1, user_js, IF fault = "write_userjs" THEN <<>> ELSE UserJsBytes)
    IN  put_file(f2, css, IF fault = "write_css" \/ l.navbar THEN <<>>
                          ELSE UserChromeCssBytes)

\* the file system where exec_firefox panics at the call named by fault
firefox_panic(f, l, fork, fault) ==
    LET profile_path == Norm(firefox_profile_path(l, fork))
        chrome  == Append(profile_path, <<"chrome">>)
        user_js == Append(profile_path, <<"user.js">>)
        f0 == create_dir_all(f, profile_path)
        f1 == create_dir_all(f0, chrome)
        f2 == put_file(f1, user_js, UserJsBytes)
    IN  CASE fault = "mkdir_profile" -> f
          [] fault = "mkdir_chrome"  -> f0
          [] fault = "create_userjs" -> f1
          [] fault = "create_css"    -> f2

PanicFaults == {"mkdir_profile", "mkdir_chrome", "create_userjs", "create_css"}

\* WebAppLauncher::create.  The result's value is what exec_string() returned.
create(fault) ==
    /\ launcher # NoLauncher
    /\ fault \in create_faults(launcher)
    /\ LET l    == launcher
           p    == Norm(l.path)
           t    == l.web_browser._type
           ls   == entry_lines(l, exec_string(l))
           head == put_file(fs, p, written(ls, 4))
           boot == IF t \in FirefoxFamily
                   THEN firefox_bootstrap(head, l, firefox_fork(t), fault)
                   ELSE head
       IN  IF fault = "create_entry" \/ ~can_create_file(fs, p)
           THEN /\ fs' = fs
                /\ res' = Result("create", "Err", fault, l, <<>>)
                /\ UNCHANGED launcher
           ELSE IF fault = "write_head"
           THEN /\ fs' = put_file(fs, p, <<>>)
                /\ res' = Result("create", "Err", fault, l, <<>>)
                /\ UNCHANGED launcher
           ELSE IF fault \in PanicFaults
           THEN /\ fs' = firefox_panic(head, l, firefox_fork(t), fault)
                /\ res' = Result("create", "panic", fault, l, <<>>)
                /\ launcher' = NoLauncher
           ELSE IF fault = "write_tail"
           THEN /\ fs' = put_file(boot, p, written(ls, Len(ls) - 1))
                /\ res' = Result("create", "Err", fault, l, exec_string(l))
                /\ UNCHANGED launcher
           ELSE /\ fs' = put_file(boot, p, written(ls, Len(ls)))
                /\ res' = Result("create", "Ok", fault, l, exec_string(l))
                /\ UNCHANGED launcher
    /\ UNCHANGED probe

\* profile_dir of delete, by browser type
delete_profile_root(type) ==
    CASE type = "FirefoxFlatpak"
           -> Join(home_dir, <<".var/app/org.mozilla.firefox/data/ice/firefox">>)
      [] type = "Librewolf"
           -> Join(home_dir, <<".var/app/io.gitlab.librewolf-community/data/ice/librewolf">>)
      [] type = "WaterfoxFlatpak"
           -> Join(home_dir, <<".var/app/net.waterfox.waterfox/data/ice/waterfox">>)
      [] OTHER -> home_dir

\* profile_path of delete
delete_profile_path(l) == Join(delete_profile_root(l.web_browser._type), l.codename)

DeleteFaults == {"none", "remove_file", "remove_dir"}

\* the outcome of remove_dir_all propagated with ?
delete_status_propagating(exist, file_removed, dir_removed) ==
    IF (exist /\ ~file_removed) \/ ~dir_removed THEN "Err" ELSE "Ok"

\* what delete returns: the error of remove_file when the entry file exists and
\* cannot be removed; the outcome of remove_dir_all is only logged
delete_status(exist, file_removed, dir_removed) ==
    IF exist /\ ~file_removed THEN "Err" ELSE "Ok"

\* WebAppLauncher::delete.  The result's value holds exist, the profile_path
\* handed to remove_dir_all (attempted: whether that call was reached) and
\* whether remove_dir_all returned Ok.
delete(fault) ==
    /\ launcher # NoLauncher
    /\ fault \in DeleteFaults
    /\ LET l     == launcher
           p     == Norm(l.path)
           exist == Exists(fs, p)
           file_removed == exist /\ fault # "remove_file" /\ IsFile(fs, p)
           f1    == IF file_removed THEN remove_file(fs, p) ELSE fs
           profile_path == Norm(delete_profile_path(l))
           attempted    == ~exist \/ file_removed
           dir_removed  == attempted /\ IsDir(f1, profile_path) /\ fault # "remove_dir"
           f2    == IF dir_removed THEN remove_dir_all(f1, profile_path) ELSE f1
       IN  /\ fault = "remove_file" => exist
           /\ fault = "remove_dir" => attempted /\ IsDir(f1, profile_path)
           /\ fs' = f2
           /\ res' = Result("delete", delete_status(exist, file_removed, dir_removed), fault, l,
                            [exist |-> exist, attempted |-> attempted,
                             profile_path |-> profile_path, removed |-> dir_removed])
    /\ UNCHANGED <<probe, launcher>>

ReadFaults == {"none", "open"}

\* WebAppLauncher::read of the caller's launcher file, with its codename
read(fault) ==
    /\ launcher # NoLauncher
    /\ fault \in ReadFaults
    /\ LET l == launcher
           p == Norm(l.path)
       IN  /\ fault = "open" => IsFile(fs, p)
           /\ IF fault = "open" \/ ~IsFile(fs, p)
              THEN res' = Result("read", "Err", fault, l, Err("io"))
              ELSE LET r == read_text(fs[p].text, l.path, l.codename, probe)
                   IN  res' = Result("read", IF r.ok THEN "Ok" ELSE "Err", fault, l, r)
    /\ UNCHANGED <<fs, probe, launcher>>

\* a byte sequence that is not UTF-8, inside a file name
NonUtf8 == "\\xE9"

\* OsStr::to_str
to_str(filename) ==
    IF \E i \in 1..Len(filename) : filename[i] = NonUtf8 THEN None ELSE Some(filename)

\* the entries fs::read_dir yields for a directory
entries(f, d) == {p \in DOMAIN f : Len(p) = Len(d) + 1 /\ Under(p, d)}

\* the orders read_dir may yield a set of entries in
Orders(S) ==
    {o \in [1..Cardinality(S) -> S] : \A i, j \in 1..Cardinality(S) : o[i] = o[j] => i = j}

is_webapp_filename(filename) ==
    StartsWith(filename, <<"webapp-">>) /\ EndsWith(filename, <<".desktop">>)

\* codename of get_webapps, from the file name
filename_codename(filename) ==
    Replace(Replace(filename, <<"webapp-">>, <<>>), <<".desktop">>, <<>>)

\* what get_webapps pushes for one matching entry
read_entry(f, p, unreadable, pr) ==
    IF p \in unreadable \/ ~IsFile(f, p)
    THEN Err("io")
    ELSE read_text(f[p].text, p, filename_codename(p[Len(p)]), pr)

WebappsFaults == {"none", "mkdir_apps"}

\* get_webapps.  order is the order read_dir yields the entries in,
\* unreadable the entries File::open fails on.
get_webapps(fault, order, unreadable) ==
    /\ fault \in WebappsFaults
    /\ fault = "mkdir_apps" => ~IsDir(fs, AppsDir)
    /\ IF ~IsDir(fs, AppsDir)
       THEN /\ unreadable = {}
            /\ order = <<>>
            /\ IF fault = "mkdir_apps"
               THEN /\ fs' = fs
                    /\ res' = Result("get_webapps", "panic", fault, NoLauncher, <<>>)
                    /\ launcher' = NoLauncher
               ELSE /\ fs' = create_dir_all(fs, AppsDir)
                    /\ res' = Result("get_webapps", "Ok", fault, NoLauncher, <<>>)
                    /\ UNCHANGED launcher
       ELSE /\ order \in Orders(entries(fs, AppsDir))
            /\ unreadable \subseteq {p \in entries(fs, AppsDir) : is_webapp_filename(p[Len(p)])}
            /\ fs' = fs
            /\ IF \E i \in 1..Len(order) : ~to_str(order[i][Len(order[i])]).some
               THEN /\ res' = Result("get_webapps", "panic", fault, NoLauncher, <<>>)
                    /\ launcher' = NoLauncher
               ELSE LET hit == SelectSeq(order, LAMBDA p : is_webapp_filename(p[Len(p)]))
                        webapps == [i \in 1..Len(hit) |->
                                       read_entry(fs, hit[i], unreadable, probe)]
                    IN  /\ res' = Result("get_webapps", "Ok", fault, NoLauncher, webapps)
                        /\ UNCHANGED launcher
    /\ UNCHANGED probe

\* a caller of get_supported_browsers
supported_browsers ==
    /\ res' = Result("get_supported_browsers", "Ok", "none", NoLauncher,
                     get_supported_browsers(probe))
    /\ UNCHANGED <<fs, probe, launcher>>

-----------------------------------------------------------------------------
(* Icon names *)

\* the schemes of the urls: one with an authority, one without
Schemes == {"https://", "mailto:"}

\* Url::parse and Url::host_str: no url without a scheme, no https url
\* with an empty host; the host of an https url runs up to the path, a
\* mailto url has none
Url_parse(url) ==
    IF Len(url) = 0 \/ url[1] \notin Schemes THEN Err("parse")
    ELSE IF url[1] = "mailto:" THEN Ok([host |-> None])
    ELSE LET host == Split(Tail(url), "/")[1]
         IN  IF host = <<>> THEN Err("parse") ELSE Ok([host |-> Some(host)])

\* get_icon_name_from_url: indexing parts[parts.len() - 2] panics when the
\* host has a single part
get_icon_name_from_url(url) ==
    LET parsed == Url_parse(url)
    IN  IF ~parsed.ok THEN [panic |-> FALSE, v |-> <<>>]
        ELSE IF ~parsed.v.host.some THEN [panic |-> FALSE, v |-> <<>>]
        ELSE LET parts == Split(parsed.v.host.v, ".")
             IN  IF Len(parts) < 2 THEN [panic |-> TRUE, v |-> <<>>]
                 ELSE [panic |-> FALSE, v |-> parts[Len(parts) - 1]]

\* a caller of get_icon_name_from_url
icon_name(url, scheme, labels) ==
    /\ LET out == get_icon_name_from_url(url)
       IN  res' = Result("get_icon_name_from_url", IF out.panic THEN "panic" ELSE "Ok",
                         "none", NoLauncher,
                         [url |-> url, scheme |-> scheme, labels |-> labels, name |-> out.v])
    /\ UNCHANGED <<fs, probe, launcher>>

-----------------------------------------------------------------------------
(* The environment *)

\* a browser is installed or removed, or its test path becomes unreadable
probe_change(i, o) ==
    /\ i \in 1..Len(Catalog)
    /\ o \in ProbeOutcomes
    /\ probe[i] # o
    /\ probe' = [probe EXCEPT ![i] = o]
    /\ res' = Result("env", "Ok", "none", NoLauncher, <<>>)
    /\ UNCHANGED <<fs, launcher>>

\* another program puts a file into the applications directory
foreign_file(filename, text) ==
    /\ IsDir(fs, AppsDir)
    /\ ~Exists(fs, Append(AppsDir, filename))
    /\ fs' = put_file(fs, Append(AppsDir, filename), text)
    /\ res' = Result("env", "Ok", "none", NoLauncher, <<>>)
    /\ UNCHANGED <<probe, launcher>>


-----------------------------------------------------------------------------
(* Inputs *)

RandLo == 1000
\* how many labels a host has at most
MaxLabels == 3

\* how many of the random codes 1000..9999 the model draws from
NumCodes == 1

AllFound == [i \in 1..Len(Catalog) |-> "found"]

BaseUrl == <<"https://", "a">>

AllTypes == {"NoBrowser", "Firefox", "FirefoxFlatpak", "Librewolf", "WaterfoxFlatpak",
             "Chromium", "Falkon"}

AllFlags == {<<a, b, c>> : a \in BOOLEAN, b \in BOOLEAN, c \in BOOLEAN}

\* the launchers new() builds from the arguments of D, for the browsers
\* get_supported_browsers offers when every catalog browser is found
Launchers(D) ==
    {new(name, codename, url, icon, <<"Network">>, get_supported_browsers(AllFound)[i],
         params, flags[1], flags[2], flags[3], code) :
        name \in D.names, codename \in D.codenames, url \in D.urls, icon \in D.icons,
        params \in D.params, flags \in D.flags, code \in D.codes,
        i \in {j \in 1..Len(get_supported_browsers(AllFound)) :
                  get_supported_browsers(AllFound)[j]._type \in D.types}}

\* string fields that hold key tokens of the entry format and line breaks
CodecDomain ==
    [ names |-> {<<"n">>}, icons |-> {<<"i">>}, codenames |-> {Some(<<"c">>)},
      urls |-> {BaseUrl \o t : t \in StrUpTo({"X-WebApp-URL="}, MaxLen)}
                   \cup {BaseUrl \o <<"?", "Name=", "x">>},
      params |-> StrUpTo({"p", "X-WebApp-Navbar=", "\n"}, MaxLen),
      flags |-> AllFlags, codes |-> {RandLo}, types |-> AllTypes ]

\* empty and non-empty required fields, valid and invalid urls
ValidityDomain ==
    [ names |-> {<<>>, <<"n">>}, icons |-> {<<>>, <<"i">>}, codenames |-> {Some(<<"c">>)},
      urls |-> {<<>>, <<"a">>, BaseUrl},
      params |-> {<<>>},
      flags |-> {<<FALSE, FALSE, FALSE>>}, codes |-> {RandLo}, types |-> AllTypes ]

\* Chromium launchers whose string fields hold flag tokens
ExecDomain ==
    [ names |-> {<<"n">>}, icons |-> {<<"i">>},
      codenames |-> {Some(<<"c">>), Some(<<"--inprivate">>)},
      urls |-> {BaseUrl, BaseUrl \o <<"--user-data-dir">>},
      params |-> StrUpTo({"p", "--incognito"}, MaxLen),
      flags |-> AllFlags, codes |-> {RandLo}, types |-> {"Chromium"} ]

\* launchers of the store: every browser type, empty, given and generated codenames
StoreDomain ==
    [ names |-> {<<"n">>}, icons |-> {<<"i">>},
      codenames |-> {Some(<<>>), Some(<<"c">>), None},
      urls |-> {BaseUrl},
      params |-> {<<>>},
      flags |-> {<<FALSE, FALSE, FALSE>>},
      codes |-> RandLo..(RandLo + NumCodes - 1), types |-> AllTypes ]

\* a home directory with a directory of the user's and the applications
\* directory, which holds a file of another program
BaseFs ==
    LET user == Append(home_dir, <<"c">>)
        f1   == create_dir_all(create_dir_all(<<>>, AppsDir), user)
        f2   == put_file(f1, Append(user, <<"data">>), <<"user data">>)
    IN  put_file(f2, Append(AppsDir, <<"mimeinfo.cache">>), <<"[MIME Cache]", "\n">>)

\* the same home directory before the applications directory exists
FirstRunFs == remove_dir_all(BaseFs, AppsDir)

\* files other programs leave in the applications directory: a file whose
\* name is not UTF-8, an entry of prior tooling for an unknown browser
ForeignFiles ==
    { <<<<"caf", NonUtf8, ".desktop">>, <<"[Desktop Entry]", "\n">>>>,
      <<<<"webapp-", "old", ".desktop">>,
        <<"Name=", "o", "\n", "Icon=", "i", "\n", "StartupWMClass=", "ICE-SSB", "\n",
          "X-WebApp-Browser=", "Epiphany", "\n">>>> }

\* Firefox-family launchers of one codename, with the navbar kept and hidden
ChromeDomain ==
    [ names |-> {<<"n">>}, icons |-> {<<"i">>}, codenames |-> {Some(<<"c">>)},
      urls |-> {BaseUrl},
      params |-> {<<>>},
      flags |-> {<<FALSE, b, FALSE>> : b \in BOOLEAN},
      codes |-> {RandLo}, types |-> FirefoxFamily ]

\* launchers named by the user and by new(): codenames that hold the
\* prefix and the suffix of the entry's file name, names with a space
NameDomain ==
    [ names |-> {<<"n">>, <<"n", " ", "m">>}, icons |-> {<<"i">>},
      codenames |-> {Some(<<"c">>), Some(<<"webapp-", "c">>), Some(<<"c", ".desktop">>), None},
      urls |-> {BaseUrl},
      params |-> {<<>>},
      flags |-> {<<FALSE, FALSE, FALSE>>},
      codes |-> RandLo..(RandLo + NumCodes - 1), types |-> AllTypes ]

-----------------------------------------------------------------------------
(* Specifications *)

\* the codec: one launcher, written, read back, its browser coming and going
InitCodec ==
    /\ fs = BaseFs
    /\ probe = AllFound
    /\ launcher \in Launchers(CodecDomain) \cup Launchers(ValidityDomain)
                                           \cup Launchers(ExecDomain)
    /\ res = Result("new", "Ok", "none", launcher, <<>>)

OwnBrowser(i) == launcher # NoLauncher /\ Catalog[i] = launcher.web_browser

NextCodec ==
    \/ create("none")
    \/ read("none")
    \/ \E i \in 1..Len(Catalog), o \in ProbeOutcomes : OwnBrowser(i) /\ probe_change(i, o)

SpecCodec == InitCodec /\ [][NextCodec]_vars

\* the probe: every outcome of the existence tests
InitProbe ==
    /\ fs = BaseFs
    /\ probe \in [1..Len(Catalog) -> ProbeOutcomes]
    /\ launcher = NoLauncher
    /\ res = Result("env", "Ok", "none", NoLauncher, <<>>)

NextProbe == supported_browsers

SpecProbe == InitProbe /\ [][NextProbe]_vars

\* the caller edits the navbar flag: the launcher is built again by new()
\* from the same arguments and codename
edit_navbar(b) ==
    /\ launcher # NoLauncher
    /\ launcher.navbar # b
    /\ launcher' = new(launcher.name, Some(launcher.codename), launcher.url, launcher.icon,
                       launcher.category, launcher.web_browser, launcher.custom_parameters,
                       launcher.isolate_profile, b, launcher.is_incognito, RandLo)
    /\ res' = Result("new", "Ok", "none", launcher', <<>>)
    /\ UNCHANGED <<fs, probe>>

\* the profile files: a Firefox-family launcher saved again and again, its
\* navbar flag edited in between, while the file system fails
InitChrome ==
    /\ fs = BaseFs
    /\ probe = AllFound
    /\ launcher \in Launchers(ChromeDomain)
    /\ res = Result("new", "Ok", "none", launcher, <<>>)

NextChrome ==
    \/ \E fault \in {"none"} \cup EntryFaults \cup ProfileFaults : create(fault)
    \/ \E b \in BOOLEAN : edit_navbar(b)

SpecChrome == InitChrome /\ [][NextChrome]_vars

\* the labels of the hosts
HostLabels == {"www", "example", "com", "localhost"}

\* the hosts: up to MaxLabels labels
Hosts == {h \in StrUpTo(HostLabels, MaxLabels) : h # <<>>}

\* the labels of a host, separated by dots
RECURSIVE Dotted(_)
Dotted(labels) ==
    IF Len(labels) <= 1 THEN labels
    ELSE <<Head(labels), ".">> \o Dotted(Tail(labels))

\* the icon names: urls with and without scheme, host and path
InitIcon ==
    /\ fs = BaseFs
    /\ probe = AllFound
    /\ launcher = NoLauncher
    /\ res = Result("env", "Ok", "none", NoLauncher, <<>>)

NextIcon ==
    \E scheme \in Schemes \cup {""}, labels \in Hosts \cup {<<>>},
       path \in {<<>>, <<"/", "p">>} :
        icon_name((IF scheme = "" THEN <<>> ELSE <<scheme>>) \o Dotted(labels) \o path,
                  scheme, labels)

SpecIcon == InitIcon /\ [][NextIcon]_vars

\* the names: a launcher written and the applications directory listed
InitName ==
    /\ fs = BaseFs
    /\ probe = AllFound
    /\ launcher \in Launchers(NameDomain)
    /\ res = Result("new", "Ok", "none", launcher, <<>>)

NextName ==
    \/ create("none")
    \/ \E order \in Orders(entries(fs, AppsDir)) : get_webapps("none", order, {})

SpecName == InitName /\ [][NextName]_vars

\* the store: a launcher created, listed and deleted while the file system
\* fails and other programs write to the applications directory
Init ==
    /\ fs \in {BaseFs, FirstRunFs}
    /\ probe = AllFound
    /\ launcher \in Launchers(StoreDomain)
    /\ res = Result("new", "Ok", "none", launcher, <<>>)

Next ==
    \/ \E fault \in {"none"} \cup EntryFaults \cup ProfileFaults : create(fault)
    \/ \E fault \in DeleteFaults : delete(fault)
    \/ \E fault \in WebappsFaults, order \in Orders(entries(fs, AppsDir)),
          unreadable \in SUBSET entries(fs, AppsDir) :
          Cardinality(unreadable) <= 1 /\ get_webapps(fault, order, unreadable)
    \/ \E ff \in ForeignFiles : foreign_file(ff[1], ff[2])

Spec == Init /\ [][Next]_vars


-----------------------------------------------------------------------------
(* Claims *)

\* the entry file of l holds what create() wrote for l
WrittenBy(l) ==
    /\ IsFile(fs, Norm(l.path))
    /\ fs[Norm(l.path)].text = written(entry_lines(l, exec_string(l)), 19)

\* browser b is a catalog browser whose test path exists now
InstalledNow(b) == \E i \in 1..Len(Catalog) : Catalog[i] = b /\ probe[i] = "found"

\* read() has just been called on the file create() wrote for a launcher with
\* non-empty name, icon and url and an installed browser, with its codename
RoundTripCase ==
    /\ res.op = "read"
    /\ res.fault = "none"
    /\ res.l.name # <<>> /\ res.l.icon # <<>> /\ res.l.url # <<>>
    /\ InstalledNow(res.l.web_browser)
    /\ WrittenBy(res.l)

SameFields(l, r) ==
    /\ r.url = l.url
    /\ r.navbar = l.navbar
    /\ r.is_incognito = l.is_incognito
    /\ r.isolate_profile = l.isolate_profile
    /\ r.custom_parameters = l.custom_parameters
    /\ r.web_browser.name = l.web_browser.name

\* the keys read() takes the compared fields from
RoundTripKeys ==
    { <<"X-WebApp-Browser=">>, <<"X-WebApp-URL=">>, <<"X-WebApp-Navbar=">>,
      <<"X-WebApp-PrivateWindow=">>, <<"X-WebApp-Isolated=">>,
      <<"X-WebApp-CustomParameters=">> }

\* no string create() writes for l holds one of those keys or a line break
KeyFree(l) ==
    \A v \in {l.name, l.icon, l.category, l.codename, l.url, l.custom_parameters,
              l.web_browser.name, exec_string(l)} :
        /\ \A k \in RoundTripKeys : ~Contains(v, k)
        /\ ~Contains(v, <<"\n">>)
        /\ ~Contains(v, <<"\r">>)

\* the string fields of l hold no line break
SingleLine(l) ==
    \A v \in {l.name, l.icon, l.category, l.codename, l.url, l.custom_parameters} :
        ~Contains(v, <<"\n">>) /\ ~Contains(v, <<"\r">>)

\* C1 as stated: read(create(L)) reproduces url, navbar, is_incognito,
\* isolate_profile, custom_parameters and the browser name of every launcher L
\* with non-empty name, icon and url and an installed browser, also when its
\* (single-line) string fields hold key tokens of the entry format
C1_RoundTripAnyValue ==
    RoundTripCase /\ SingleLine(res.l)
        => res.status = "Ok" /\ res.value.ok /\ SameFields(res.l, res.value.v)

\* C1 amended: read(create(L)) reproduces those six fields when no string
\* written to the file holds an X-WebApp-* key of the six fields or a line
\* break; other key tokens, such as Name=, may occur in the values
C1_RoundTripKeyFree ==
    RoundTripCase /\ KeyFree(res.l)
        => res.status = "Ok" /\ res.value.ok /\ SameFields(res.l, res.value.v)

\* a launcher with custom parameters, navbar set and Name= inside its url has
\* been written and read back
C1_Witness ==
    /\ RoundTripCase
    /\ KeyFree(res.l)
    /\ res.l.custom_parameters # <<>>
    /\ res.l.navbar
    /\ Contains(res.l.url, <<"Name=">>)
    /\ res.status = "Ok"

\* is_valid of l is backed by its fields
ValidBacked(l) ==
    l.is_valid => /\ l.name # <<>>
                  /\ l.icon # <<>>
                  /\ url_valid(l.url)
                  /\ l.web_browser._type # "NoBrowser"

\* C2: every launcher built by new() or returned by read() with is_valid set
\* has a non-empty name, a non-empty icon, a valid url and a browser other
\* than NoBrowser
C2_ValidImpliesFields ==
    /\ launcher # NoLauncher => ValidBacked(launcher)
    /\ res.op = "read" /\ res.status = "Ok" => ValidBacked(res.value.v)

\* the browser name the entry file of l stores (empty when the key is absent)
StoredBrowserName(l) ==
    scan_lines(read_init, Lines(fs[Norm(l.path)].text), 1).browser_name

\* C3: read() fails whenever the stored browser name is not the name of a
\* catalog browser whose test path exists, and a launcher it returns has one
\* of those browsers, never the Select browser placeholder
C3_ReadResolvesInstalled ==
    res.op = "read" /\ res.fault = "none" /\ IsFile(fs, Norm(res.l.path))
        => /\ (~\E i \in 1..Len(Catalog) :
                   probe[i] = "found" /\ Catalog[i].name = StoredBrowserName(res.l))
               => res.status = "Err"
           /\ res.status = "Ok"
               => \E i \in 1..Len(Catalog) :
                      probe[i] = "found" /\ Catalog[i] = res.value.v.web_browser

\* C4: once delete() has returned success for a Firefox-family launcher (and
\* the file system refused nothing), the profile directory exec_firefox()
\* creates for that launcher does not exist
C4_DeleteRemovesCreatedProfile ==
    /\ res.op = "delete"
    /\ res.status = "Ok"
    /\ res.fault = "none"
    /\ res.l.web_browser._type \in FirefoxFamily
    => ~Exists(fs, Norm(firefox_profile_path(res.l, firefox_fork(res.l.web_browser._type))))

\* C5: delete() on a Chromium, Falkon or NoBrowser launcher changes nothing
\* in the file system but the launcher's own entry file
C5_DeleteFrame ==
    [][ /\ \E fault \in DeleteFaults : delete(fault)
        /\ launcher.web_browser._type \in {"Chromium", "Falkon", "NoBrowser"}
        => \A p \in DOMAIN fs :
               p # Norm(launcher.path) => p \in DOMAIN fs' /\ fs'[p] = fs[p] ]_vars

\* C6: delete() of a launcher whose entry file does not exist returns
\* success and reaches remove_dir_all; and whenever remove_dir_all was
\* reached and removed nothing, delete() returns success
C6_DeleteMissingEntryOk ==
    /\ res.op = "delete" /\ ~res.value.exist
           => res.status = "Ok" /\ res.value.attempted
    /\ res.op = "delete" /\ res.value.attempted /\ ~res.value.removed
           => res.status = "Ok"

\* delete() was called without an entry file and remove_dir_all failed on an
\* existing directory
C6_Witness ==
    /\ res.op = "delete"
    /\ ~res.value.exist
    /\ res.fault = "remove_dir"
    /\ ~res.value.removed
    /\ res.status = "Ok"

\* C7: whenever the file system refuses a create or write that create() needs,
\* create() returns an error: it neither panics nor returns success
C7_CreateReportsFailures ==
    res.op = "create" /\ res.fault # "none" => res.status = "Err"

\* the entries of the applications directory that get_webapps reads
WebappEntries == {p \in entries(fs, AppsDir) : is_webapp_filename(p[Len(p)])}

\* C8: get_webapps() returns, leaving the applications directory in place,
\* one result per entry named webapp-*.desktop and none for the others; each
\* slot is the outcome of reading its own file, an error or the launcher
\* read from it (stated for the calls in which no directory creation fails)
C8_ListingPerEntry ==
    res.op = "get_webapps" /\ res.fault = "none"
        => /\ res.status = "Ok"
           /\ IsDir(fs, AppsDir)
           /\ Len(res.value) = Cardinality(WebappEntries)
           /\ \E o \in Orders(WebappEntries) :
                  \A i \in 1..Len(res.value) :
                      \/ res.value[i] = Err("io")
                      \/ res.value[i] = read_entry(fs, o[i], {}, probe)

\* the catalog indices whose test path was found
FoundIndices == {i \in 1..Len(Catalog) : probe[i] = "found"}

\* the k-th smallest element of a set of numbers
Kth(S, k) == CHOOSE i \in S : Cardinality({j \in S : j <= i}) = k

\* C9: get_supported_browsers() returns NoBrowser, named Select browser, at
\* index 0, then exactly the catalog browsers whose test path exists, in
\* catalog order; candidates whose test failed or found nothing are left out
\* and NoBrowser is at no other index
C9_SupportedBrowsers ==
    res.op = "get_supported_browsers"
        => /\ res.status = "Ok"
           /\ Len(res.value) = Cardinality(FoundIndices) + 1
           /\ res.value[1]._type = "NoBrowser"
           /\ res.value[1].name = <<"Select browser">>
           /\ \A k \in 1..Cardinality(FoundIndices) :
                  /\ res.value[k + 1] = Catalog[Kth(FoundIndices, k)]
                  /\ res.value[k + 1]._type # "NoBrowser"

\* the listing was made while one test failed, one found nothing and a later
\* one found its path
C9_Witness ==
    /\ res.op = "get_supported_browsers"
    /\ probe[1] = "error"
    /\ probe[2] = "missing"
    /\ probe[5] = "found"
    /\ Len(res.value) > 2

ProfileFlags == {<<"--user-data-dir">>, <<"--incognito">>, <<"--inprivate">>}

\* create() has synthesized the command of a Chromium launcher with
\* isolate_profile and is_incognito both false
PlainChromiumCase ==
    /\ res.op = "create"
    /\ res.status = "Ok"
    /\ res.l.web_browser._type = "Chromium"
    /\ ~res.l.isolate_profile
    /\ ~res.l.is_incognito

user_chrome_css_path(l) ==
    Append(Append(Norm(firefox_profile_path(l, firefox_fork(l.web_browser._type))),
                  <<"chrome">>), <<"userChrome.css">>)

\* C11: once create() has returned success for a Firefox-family launcher,
\* chrome/userChrome.css of its profile is empty when navbar is true and
\* holds exactly the bundled stylesheet bytes when navbar is false
C11_UserChromeFollowsNavbar ==
    /\ res.op = "create"
    /\ res.status = "Ok"
    /\ res.l.web_browser._type \in FirefoxFamily
    => /\ IsFile(fs, user_chrome_css_path(res.l))
       /\ fs[user_chrome_css_path(res.l)].text =
              IF res.l.navbar THEN <<>> ELSE UserChromeCssBytes

\* C12: get_icon_name_from_url returns a value for every url: the
\* second-to-last label of the host when the url parses and has a host of
\* two labels or more, some value when the host is a single label, the
\* empty string when the url does not parse or has no host
C12_IconNameTotal ==
    res.op = "get_icon_name_from_url"
        => LET in == res.value
               hosted == in.scheme = "https://" /\ in.labels # <<>>
           IN  /\ res.status = "Ok"
               /\ hosted /\ Len(in.labels) >= 2
                      => in.name = <<in.labels[Len(in.labels) - 1]>>
               /\ ~hosted => in.name = <<>>

\* C13: when get_webapps() lists the applications directory that holds the
\* entry create() wrote for a launcher built by new(), one of the launchers
\* listed has that entry's path and the codename the launcher was written
\* with
C13_CodenameSurvives ==
    /\ res.op = "get_webapps"
    /\ res.status = "Ok"
    /\ launcher # NoLauncher
    /\ WrittenBy(launcher)
    => \E i \in 1..Len(res.value) :
           /\ res.value[i].ok
           /\ res.value[i].v.path = Norm(launcher.path)
           /\ res.value[i].v.codename = launcher.codename

=============================================================================
